---- MODULE Spec2Model ----
(***************************************************************************)
(* Model of port_en_to_jp_3.py: the EN->JA porter for .ast script files.   *)
(*                                                                         *)
(* Text is a sequence of one-character strings.  All offsets are 0-based   *)
(* as in the Python source; At(text, i) is text[i], PySlice(text, a, b) is *)
(* text[a:b].                                                              *)
(***************************************************************************)
EXTENDS Integers, Sequences, FiniteSets, TLC

VARIABLES
    fmb,        \* frame of one find_matching_brace call
    eb,         \* frame of one extract_blocks_to / extract_blocks_from call
    ed,         \* frame of the replacement loop of process_file
    nm,         \* frame of the re.sub(..., transform_name, ...) call
    main_pc,    \* position of main(): "loop" | "done" | "idle"
    n_files,    \* len(to_files)
    idx,        \* number of loop iterations of main() completed
    processor,  \* the ASTProcessor: mismatched_files, failed_files, successful_files
    success_count,
    outputs,    \* names of the files whose out_path.write_text has completed
    pf          \* locals of the latest process_file call

vars == <<fmb, eb, ed, nm, main_pc, n_files, idx, processor, success_count, outputs, pf>>

(***************************************************************************)
(* Bounds of the model.                                                    *)
(***************************************************************************)
MaxBraceLen == 5
MaxPieces == 3
MaxBufLen == 4
MaxEdits == 2
MaxFields == 2
MaxFiles == 2

(***************************************************************************)
(* Python sequence primitives.                                             *)
(***************************************************************************)
Min(a, b) == IF a <= b THEN a ELSE b
Max(a, b) == IF a >= b THEN a ELSE b

At(text, i) == text[i + 1]

\* text[a:b] for non-negative a, b, with Python's clamping to the length.
PySlice(text, a, b) ==
    LET lo == Min(a, Len(text))
        hi == Min(b, Len(text))
    IN  IF lo >= hi THEN <<>> ELSE SubSeq(text, lo + 1, hi)

\* lst[a:b] = repl for non-negative a, b (list slice assignment).
PySliceAssign(lst, a, b, repl) ==
    LET lo == Min(a, Len(lst))
        hi == Max(lo, Min(b, Len(lst)))
    IN  SubSeq(lst, 1, lo) \o repl \o SubSeq(lst, hi + 1, Len(lst))

RECURSIVE Concat(_)
Concat(ss) == IF ss = <<>> THEN <<>> ELSE Head(ss) \o Concat(Tail(ss))

SetMin(S) == CHOOSE x \in S : \A y \in S : x <= y
SetMax(S) == CHOOSE x \in S : \A y \in S : x >= y

(***************************************************************************)
(* find_matching_brace (lines 30-48).                                      *)
(***************************************************************************)
\* The guard of line 32: TRUE when the call returns -1 at once.
FmbNotOpen(text, start_idx) ==
    start_idx >= Len(text) \/ At(text, start_idx) # "{"

FmbStepNoEscape(text, i, depth) ==
    IF At(text, i) = "{" THEN <<i + 1, depth + 1>>
    ELSE IF At(text, i) = "}" THEN <<i + 1, depth - 1>>
    ELSE <<i + 1, depth>>

\* One iteration of the while loop (lines 38-46): the new <<i, depth>>.
FmbStep(text, i, depth) ==
    IF i > 0 /\ At(text, i - 1) = "\\" THEN <<i + 1, depth>>
    ELSE IF At(text, i) = "{" THEN <<i + 1, depth + 1>>
    ELSE IF At(text, i) = "}" THEN <<i + 1, depth - 1>>
    ELSE <<i + 1, depth>>

\* The loop condition of line 37.
FmbContinue(text, i, depth) == i < Len(text) /\ depth > 0

FmbResultNoCheck(i, depth) == i

\* Line 48.
FmbResult(i, depth) == IF depth = 0 THEN i ELSE -1

RECURSIVE FmbLoop(_, _, _)
FmbLoop(text, i, depth) ==
    IF FmbContinue(text, i, depth)
    THEN LET s == FmbStep(text, i, depth) IN FmbLoop(text, s[1], s[2])
    ELSE FmbResult(i, depth)

find_matching_brace(text, start_idx) ==
    IF FmbNotOpen(text, start_idx) THEN -1 ELSE FmbLoop(text, start_idx + 1, 1)

(***************************************************************************)
(* Specification SpecBrace: one call of find_matching_brace, statement by  *)
(* statement, on every buffer over BraceAlphabet of at most MaxBraceLen    *)
(* characters and every start index up to the length.                      *)
(***************************************************************************)
BraceAlphabet == {"{", "}", "\\", "a"}

BraceTexts == UNION {[1..n -> BraceAlphabet] : n \in 0..MaxBraceLen}

Idle == [pc |-> "idle"]

OthersIdle(own) ==
    /\ ("fmb" \in own \/ fmb = Idle)
    /\ ("eb" \in own \/ eb = Idle)
    /\ ("ed" \in own \/ ed = Idle)
    /\ ("nm" \in own \/ nm = Idle)
    /\ ("main" \in own \/
            /\ main_pc = "idle"
            /\ n_files = 0
            /\ idx = 0
            /\ processor = Idle
            /\ success_count = 0
            /\ outputs = {}
            /\ pf = Idle)

mainVars == <<main_pc, n_files, idx, processor, success_count, outputs, pf>>

InitBrace ==
    /\ \E text \in BraceTexts : \E start_idx \in 0..Len(text) :
          fmb = [pc |-> "entry", text |-> text, start_idx |-> start_idx,
                 i |-> 0, depth |-> 0, ret |-> 0]
    /\ OthersIdle({"fmb"})

\* Lines 32-36.
FmbEntry ==
    /\ fmb.pc = "entry"
    /\ fmb' = IF FmbNotOpen(fmb.text, fmb.start_idx)
              THEN [fmb EXCEPT !.pc = "done", !.ret = -1]
              ELSE [fmb EXCEPT !.pc = "loop", !.depth = 1, !.i = fmb.start_idx + 1]
    /\ UNCHANGED <<eb, ed, nm, mainVars>>

\* Lines 37-46: one iteration.
FmbIterate ==
    /\ fmb.pc = "loop"
    /\ FmbContinue(fmb.text, fmb.i, fmb.depth)
    /\ LET s == FmbStep(fmb.text, fmb.i, fmb.depth)
       IN  fmb' = [fmb EXCEPT !.i = s[1], !.depth = s[2]]
    /\ UNCHANGED <<eb, ed, nm, mainVars>>

\* Line 48.
FmbReturn ==
    /\ fmb.pc = "loop"
    /\ ~FmbContinue(fmb.text, fmb.i, fmb.depth)
    /\ fmb' = [fmb EXCEPT !.pc = "done", !.ret = FmbResult(fmb.i, fmb.depth)]
    /\ UNCHANGED <<eb, ed, nm, mainVars>>

NextBrace == FmbEntry \/ FmbIterate \/ FmbReturn

SpecBrace == InitBrace /\ [][NextBrace]_vars

----------------------------------------------------------------------------
\* Reference pairing for buffers without backslashes: the number of "{" minus
\* the number of "}" in text[a:b].
RECURSIVE Balance(_, _, _)
Balance(text, a, b) ==
    IF a >= b THEN 0
    ELSE (IF At(text, a) = "{" THEN 1 ELSE IF At(text, a) = "}" THEN -1 ELSE 0)
         + Balance(text, a + 1, b)

\* One past the "}" that pairs with the "{" at open, or -1 when there is none.
PairedClose(text, open) ==
    LET R == {r \in (open + 1)..Len(text) : Balance(text, open, r) = 0}
    IN  IF R = {} THEN -1 ELSE SetMin(R)

HasBackslash(text) == \E k \in 1..Len(text) : text[k] = "\\"

\* C5: a finished find_matching_brace call either returns -1 or an index r with
\* start_idx < r <= len(text) and text[r-1] the "}" at which depth reached 0;
\* it returns -1 when text[start_idx] is not "{" (or start_idx is past the end)
\* and when the end is reached with depth > 0; without backslashes the result is
\* one past the correctly paired closing brace; the operator and the statement
\* by statement run agree.
C5_MatchBraceSafe ==
    /\ (fmb.pc = "loop" /\ fmb.depth = 0) =>
          /\ fmb.i - 1 > fmb.start_idx
          /\ At(fmb.text, fmb.i - 1) = "}"
    /\ (fmb.pc = "loop") => (fmb.depth >= 0 /\ fmb.i <= Len(fmb.text))
    /\ (fmb.pc = "done") =>
          /\ fmb.ret = -1 \/
                /\ fmb.start_idx < fmb.ret
                /\ fmb.ret <= Len(fmb.text)
                /\ At(fmb.text, fmb.ret - 1) = "}"
                /\ fmb.depth = 0
          /\ FmbNotOpen(fmb.text, fmb.start_idx) => fmb.ret = -1
          /\ (~FmbNotOpen(fmb.text, fmb.start_idx) /\ fmb.depth > 0) =>
                (fmb.ret = -1 /\ fmb.i = Len(fmb.text))
          /\ ~HasBackslash(fmb.text) =>
                fmb.ret = (IF FmbNotOpen(fmb.text, fmb.start_idx) THEN -1
                           ELSE PairedClose(fmb.text, fmb.start_idx))
          /\ fmb.ret = find_matching_brace(fmb.text, fmb.start_idx)

\* C5 witness: a nested, backslash-free buffer matched at depth 2, and the call
\* has returned one past the outer closing brace.
C5_Witness ==
    /\ fmb.pc = "done"
    /\ fmb.ret = Len(fmb.text)
    /\ fmb.start_idx = 0
    /\ ~HasBackslash(fmb.text)
    /\ \E k \in 1..(fmb.ret - 2) : At(fmb.text, k) = "{"

\* An iteration of the loop is being taken on position fmb.i.
FmbExamining ==
    /\ fmb.pc = "loop"
    /\ fmb'.pc = "loop"
    /\ fmb'.i = fmb.i + 1

IsBrace(c) == c \in {"{", "}"}

\* C6 as amended: the escape rule looks one character back and no further: a
\* brace immediately preceded by a backslash never changes depth, whether or not
\* that backslash is itself preceded by a backslash, and a brace not immediately
\* preceded by a backslash changes depth by one.
C6_OneCharLookback ==
    [][(FmbExamining /\ IsBrace(At(fmb.text, fmb.i))) =>
          IF At(fmb.text, fmb.i - 1) = "\\"
          THEN fmb'.depth = fmb.depth
          ELSE fmb'.depth = fmb.depth + (IF At(fmb.text, fmb.i) = "{" THEN 1 ELSE -1)]_vars

\* C6 witness: the loop has stepped over a brace that follows two backslashes
\* and the depth is still 1.
C6_Witness ==
    /\ fmb.pc = "loop"
    /\ fmb.start_idx = 0
    /\ fmb.i = 4
    /\ At(fmb.text, 1) = "\\"
    /\ At(fmb.text, 2) = "\\"
    /\ At(fmb.text, 3) = "}"
    /\ fmb.depth = 1

\* C6 as stated: a brace after an unescaped backslash is literal, a brace after
\* an escaped backslash (a backslash itself preceded by a backslash) is a real
\* delimiter and changes depth.
C6_Original ==
    [][(FmbExamining /\ fmb.i >= 2 /\ IsBrace(At(fmb.text, fmb.i))
            /\ At(fmb.text, fmb.i - 1) = "\\") =>
          IF At(fmb.text, fmb.i - 2) = "\\"
          THEN fmb'.depth # fmb.depth
          ELSE fmb'.depth = fmb.depth]_vars

(***************************************************************************)
(* The regular expressions of the source, matched as Python's re matches   *)
(* them.  Every \s* and \d+ below is followed by a character outside its   *)
(* class, so the greedy match never backtracks.                            *)
(***************************************************************************)
Uppers == <<"A","B","C","D","E","F","G","H","I","J","K","L","M",
            "N","O","P","Q","R","S","T","U","V","W","X","Y","Z">>
Lowers == <<"a","b","c","d","e","f","g","h","i","j","k","l","m",
            "n","o","p","q","r","s","t","u","v","w","x","y","z">>

UpperSet == {Uppers[k] : k \in 1..26}

\* re.IGNORECASE compares the lowercased characters.
Lower(c) ==
    IF c \in UpperSet
    THEN Lowers[CHOOSE k \in 1..26 : Uppers[k] = c]
    ELSE c

Digits == <<"0","1","2","3","4","5","6","7","8","9">>
DigitSet == {Digits[k] : k \in 1..10}
IsDigit(c) == c \in DigitSet
DigitVal(c) == (CHOOSE k \in 1..10 : Digits[k] = c) - 1
IsSpace(c) == c \in {" ", "\t", "\n", "\r"}

\* text[p], or "" (no character) at the end of the text.
CharAt(text, p) == IF p < Len(text) THEN At(text, p) ELSE ""

RECURSIVE SkipSpaces(_, _)
SkipSpaces(text, p) ==
    IF IsSpace(CharAt(text, p)) THEN SkipSpaces(text, p + 1) ELSE p

RECURSIVE SkipDigits(_, _)
SkipDigits(text, p) ==
    IF IsDigit(CharAt(text, p)) THEN SkipDigits(text, p + 1) ELSE p

\* A lowercase literal at p under re.IGNORECASE.
LitAt(text, p, lit) ==
    /\ p + Len(lit) <= Len(text)
    /\ \A k \in 1..Len(lit) : Lower(text[p + k]) = lit[k]

\* \s*=\s*\{ at p: the end of the match, or -1.
AssignOpenAt(text, p) ==
    LET q == SkipSpaces(text, p)
        r == SkipSpaces(text, q + 1)
    IN  IF CharAt(text, q) = "=" /\ CharAt(text, r) = "{" THEN r + 1 ELSE -1

NoMatch == [start |-> -1, end |-> -1, g1s |-> -1, g1e |-> -1]

\* int(): the value of a run of decimal digits.
RECURSIVE IntOf(_)
IntOf(ds) ==
    IF ds = <<>> THEN 0
    ELSE 10 * IntOf(SubSeq(ds, 1, Len(ds) - 1)) + DigitVal(ds[Len(ds)])

KwBlock == <<"b","l","o","c","k","_">>
KwText == <<"t","e","x","t">>
KwJa == <<"j","a">>
KwEn == <<"e","n">>
KwName == <<"n","a","m","e">>

\* block_(\d+)\s*=\s*\{ at p (line 54).
ToHeaderAt(text, p) ==
    LET d == SkipDigits(text, p + Len(KwBlock))
        e == AssignOpenAt(text, d)
    IN  IF LitAt(text, p, KwBlock) /\ d > p + Len(KwBlock) /\ e # -1
        THEN [start |-> p, end |-> e, g1s |-> p + Len(KwBlock), g1e |-> d]
        ELSE NoMatch

\* \["\d+_(\d+)"\]\s*=\s*\{ at p (line 83).
FromHeaderAt(text, p) ==
    LET d1 == SkipDigits(text, p + 2)
        d2 == SkipDigits(text, d1 + 1)
        e == AssignOpenAt(text, d2 + 2)
    IN  IF /\ CharAt(text, p) = "[" /\ CharAt(text, p + 1) = "\""
           /\ d1 > p + 2 /\ CharAt(text, d1) = "_"
           /\ d2 > d1 + 1 /\ CharAt(text, d2) = "\"" /\ CharAt(text, d2 + 1) = "]"
           /\ e # -1
        THEN [start |-> p, end |-> e, g1s |-> d1 + 1, g1e |-> d2]
        ELSE NoMatch

HeaderAt(text, p, kind) ==
    IF kind = "to" THEN ToHeaderAt(text, p) ELSE FromHeaderAt(text, p)

\* re.search(block_pattern, text, re.IGNORECASE): the leftmost match.
re_search_header(text, kind) ==
    LET starts == {p \in 0..Len(text) - 1 : HeaderAt(text, p, kind).start # -1}
    IN  IF starts = {} THEN NoMatch ELSE HeaderAt(text, SetMin(starts), kind)

\* <kw>\s*=\s*\{ at p, for the keywords text, ja, en and name.
KeywordAt(text, p, kw) ==
    LET e == AssignOpenAt(text, p + Len(kw))
    IN  IF LitAt(text, p, kw) /\ e # -1
        THEN [start |-> p, end |-> e, g1s |-> -1, g1e |-> -1]
        ELSE NoMatch

\* re.search(r'<kw>\s*=\s*\{', text, re.IGNORECASE): the leftmost match.
re_search_keyword(text, kw) ==
    LET starts == {p \in 0..Len(text) - 1 : KeywordAt(text, p, kw).start # -1}
    IN  IF starts = {} THEN NoMatch ELSE KeywordAt(text, SetMin(starts), kw)

(***************************************************************************)
(* extract_blocks_to (lines 50-77) and extract_blocks_from (lines 79-106): *)
(* the same loop over the two header patterns.                             *)
(***************************************************************************)
ASTBlock(start, end, content, block_id, raw_header) ==
    [start |-> start, end |-> end, content |-> content,
     block_id |-> block_id, raw_header |-> raw_header]

\* Lines 67-69 (96-98): the matcher failed on the header's brace.
EbOnBrokenStop(e, m) == [e EXCEPT !.pc = "done"]

EbOnBroken(e, m) == [e EXCEPT !.pos = e.pos + m.end]

\* Lines 71-75 (100-104): the block of the header m, found in sub = content[pos:],
\* whose brace is matched at end_pos.
EbEmit(e, sub, m, end_pos) ==
    [e EXCEPT
       !.blocks = Append(e.blocks,
                         ASTBlock(e.pos + m.start, end_pos,
                                  PySlice(e.content, e.pos + m.start, end_pos),
                                  IntOf(PySlice(sub, m.g1s, m.g1e)),
                                  PySlice(sub, m.start, m.end))),
       !.pos = end_pos]

\* Lines 66-75 (95-104) with end_pos the result of find_matching_brace.
EbOnBrace(e, sub, m, end_pos) ==
    IF end_pos = -1 THEN EbOnBroken(e, m) ELSE EbEmit(e, sub, m, end_pos)

\* Lines 58-66 (87-95) with m the result of re.search on sub = content[pos:].
EbOnSearch(e, sub, m) ==
    IF m.start = -1 THEN [e EXCEPT !.pc = "done"]
    ELSE EbOnBrace(e, sub, m, find_matching_brace(e.content, e.pos + m.end - 1))

EbOnSlice(e, sub) == EbOnSearch(e, sub, re_search_header(sub, e.kind))

\* One pass through the loop of lines 56-75 (85-104) on the frame e.
EbStep(e) ==
    IF ~(e.pos < Len(e.content)) THEN [e EXCEPT !.pc = "done"]
    ELSE EbOnSlice(e, PySlice(e.content, e.pos, Len(e.content)))

EbFrame(content, kind) ==
    [pc |-> "loop", kind |-> kind, content |-> content, pos |-> 0, blocks |-> <<>>]

RECURSIVE EbRun(_)
EbRun(e) == IF e.pc = "done" THEN e.blocks ELSE EbRun(EbStep(e))

extract_blocks_to(content) == EbRun(EbFrame(content, "to"))

extract_blocks_from(content) == EbRun(EbFrame(content, "from"))

(***************************************************************************)
(* Specification SpecBlocks: one call of extract_blocks_to or              *)
(* extract_blocks_from, one loop pass per step, on every buffer made of at *)
(* most MaxPieces pieces: well-formed blocks, a header whose brace never   *)
(* closes, a block holding an escaped brace, and loose text.               *)
(***************************************************************************)
ToPieces == {
    <<"b","l","o","c","k","_","0","=","{","a","}">>,
    <<"B","l","o","c","k","_","0","1"," ","="," ","{","{","}","}"," ">>,
    <<"b","l","o","c","k","_","2","=","{">>,
    <<"b","l","o","c","k","_","3","=","{","\\","}","}">>,
    <<"}">>,
    <<"b","l","o","c","k","_","=","{","}">> }

FromPieces == {
    <<"[","\"","1","_","0","\"","]","=","{","a","}">>,
    <<"[","\"","0","0","_","0","1","\"","]"," ","="," ","{","{","}","}"," ">>,
    <<"[","\"","1","_","2","\"","]","=","{">>,
    <<"[","\"","1","_","3","\"","]","=","{","\\","}","}">>,
    <<"}">>,
    <<"[","\"","_","4","\"","]","=","{","}">> }

PieceSeqs(P) == UNION {[1..n -> P] : n \in 0..MaxPieces}

InitBlocks ==
    /\ \E kind \in {"to", "from"} :
          \E ps \in PieceSeqs(IF kind = "to" THEN ToPieces ELSE FromPieces) :
             eb = EbFrame(Concat(ps), kind)
    /\ OthersIdle({"eb"})

\* Lines 56-75: a pass that finds a header and either skips it or emits its block.
EbIterate ==
    /\ eb.pc = "loop"
    /\ EbStep(eb).pc = "loop"
    /\ eb' = EbStep(eb)
    /\ UNCHANGED <<fmb, ed, nm, mainVars>>

\* Lines 56, 58-59 and 77: the loop ends and the blocks are returned.
EbReturn ==
    /\ eb.pc = "loop"
    /\ EbStep(eb).pc = "done"
    /\ eb' = EbStep(eb)
    /\ UNCHANGED <<fmb, ed, nm, mainVars>>

NextBlocks == EbIterate \/ EbReturn

SpecBlocks == InitBlocks /\ [][NextBlocks]_vars

----------------------------------------------------------------------------
\* A header of the frame's kind starts at p and its brace is matched.
ValidHeaderAt(p) ==
    LET m == HeaderAt(eb.content, p, eb.kind)
    IN  m.start # -1 /\ find_matching_brace(eb.content, m.end - 1) # -1

\* A header of the frame's kind starts at p and its brace is never closed.
BrokenHeaderAt(p) ==
    LET m == HeaderAt(eb.content, p, eb.kind)
    IN  m.start # -1 /\ find_matching_brace(eb.content, m.end - 1) = -1

\* C7: the blocks emitted so far are ordered by start and do not overlap, each
\* block's content is content[start:end], no block starts at a header whose
\* brace cannot be matched, and when the scan is over every header with a
\* matched brace is an emitted block or lies inside one, also after a broken
\* header; the operator returns the same blocks as the pass by pass run.
C7_BlocksOrdered ==
    /\ \A k \in 1..Len(eb.blocks) :
          LET b == eb.blocks[k]
          IN  /\ 0 <= b.start /\ b.start < b.end /\ b.end <= Len(eb.content)
              /\ b.content = SubSeq(eb.content, b.start + 1, b.end)
              /\ ~BrokenHeaderAt(b.start)
              /\ ValidHeaderAt(b.start)
              /\ b.end <= eb.pos
              /\ k > 1 => /\ eb.blocks[k - 1].start < b.start
                          /\ eb.blocks[k - 1].end <= b.start
    /\ eb.pc = "done" =>
          /\ \A q \in 0..Len(eb.content) - 1 :
                ValidHeaderAt(q) =>
                   \E k \in 1..Len(eb.blocks) :
                      eb.blocks[k].start <= q /\ q < eb.blocks[k].end
          /\ eb.blocks = (IF eb.kind = "to" THEN extract_blocks_to(eb.content)
                          ELSE extract_blocks_from(eb.content))

\* C7 witness: the scan is over, a broken header was met, and two blocks were
\* emitted, one of them after the broken header.
C7_Witness ==
    /\ eb.pc = "done"
    /\ Len(eb.blocks) >= 2
    /\ \E p \in 0..Len(eb.content) - 1 :
          /\ BrokenHeaderAt(p)
          /\ eb.blocks[1].end <= p
          /\ eb.blocks[Len(eb.blocks)].start > p

(***************************************************************************)
(* The replacement loop of process_file (lines 247-253).  replacements is  *)
(* the dict of line 212: a function from start_pos to <<end_pos, text>>.   *)
(***************************************************************************)
RECURSIVE SortedAscending(_)
SortedAscending(S) ==
    IF S = {} THEN <<>>
    ELSE LET m == SetMin(S) IN <<m>> \o SortedAscending(S \ {m})

RECURSIVE SortedDescending(_)
SortedDescending(S) ==
    IF S = {} THEN <<>>
    ELSE LET m == SetMax(S) IN <<m>> \o SortedDescending(S \ {m})

SortedKeysAscending(replacements) == SortedAscending(DOMAIN replacements)

\* sorted(replacements.keys(), reverse=True), line 249.
SortedKeysReverse(replacements) == SortedDescending(DOMAIN replacements)

\* Lines 250-251 for one start_pos.
ApplyReplacement(result_chars, start_pos, replacements) ==
    PySliceAssign(result_chars, start_pos,
                  replacements[start_pos][1], replacements[start_pos][2])

\* Lines 248-249: the frame of the loop.
EdFrame(to_content, replacements) ==
    [pc |-> "loop", to_content |-> to_content, replacements |-> replacements,
     keys |-> SortedKeysReverse(replacements), result_chars |-> to_content,
     result |-> <<>>]

\* One iteration of the loop of lines 249-251, or line 253 when it is over.
EdStep(e) ==
    IF e.keys = <<>> THEN [e EXCEPT !.pc = "done", !.result = e.result_chars]
    ELSE [e EXCEPT
            !.result_chars = ApplyReplacement(e.result_chars, Head(e.keys), e.replacements),
            !.keys = Tail(e.keys)]

RECURSIVE EdRun(_)
EdRun(e) == IF e.pc = "done" THEN e.result ELSE EdRun(EdStep(e))

apply_replacements(to_content, replacements) == EdRun(EdFrame(to_content, replacements))

(***************************************************************************)
(* Specification SpecEdits: the replacement loop, one edit per step, on    *)
(* every buffer of at most MaxBufLen characters and every dict of at most  *)
(* MaxEdits non-overlapping edits whose replacements are empty, shorter or *)
(* longer than the spans they replace.                                     *)
(***************************************************************************)
EditBuffers ==
    {SubSeq(Lowers, 1, n) : n \in 0..MaxBufLen} \cup {[k \in 1..n |-> "a"] : n \in 1..MaxBufLen}

EditTexts == {<<>>, <<"X">>, <<"X", "Y", "Z">>}

\* The edits of d lie in the buffer and do not overlap.
NonOverlapping(d, n) ==
    /\ \A k \in DOMAIN d : k <= d[k][1] /\ d[k][1] <= n
    /\ \A k1, k2 \in DOMAIN d : k1 < k2 => d[k1][1] <= k2

EditDicts(n) ==
    {d \in UNION {[K -> (0..n) \X EditTexts] :
                     K \in {K \in SUBSET (0..n) : Cardinality(K) \in 1..MaxEdits}} :
        NonOverlapping(d, n)}

InitEdits ==
    /\ \E buf \in EditBuffers : \E d \in EditDicts(Len(buf)) :
          ed = EdFrame(buf, d)
    /\ OthersIdle({"ed"})

\* Lines 250-251: one replacement.
EdApply ==
    /\ ed.pc = "loop"
    /\ ed.keys # <<>>
    /\ ed' = EdStep(ed)
    /\ UNCHANGED <<fmb, eb, nm, mainVars>>

\* Line 253.
EdJoin ==
    /\ ed.pc = "loop"
    /\ ed.keys = <<>>
    /\ ed' = EdStep(ed)
    /\ UNCHANGED <<fmb, eb, nm, mainVars>>

NextEdits == EdApply \/ EdJoin

SpecEdits == InitEdits /\ [][NextEdits]_vars

----------------------------------------------------------------------------
\* Direct reconstruction: the edits in ascending order ks, the buffer consumed
\* up to prev_end.
RECURSIVE Reconstruct(_, _, _, _)
Reconstruct(buf, d, ks, prev_end) ==
    IF ks = <<>> THEN SubSeq(buf, prev_end + 1, Len(buf))
    ELSE SubSeq(buf, prev_end + 1, Head(ks)) \o d[Head(ks)][2]
         \o Reconstruct(buf, d, Tail(ks), d[Head(ks)][1])

\* C1: applying non-overlapping edits in descending order of start gives the
\* buffer of the direct reconstruction; while the loop runs, everything below
\* the lowest edit applied so far is still the original buffer, and the part
\* above it is already the reconstruction of that part.
C1_DescendingEqualsReconstruction ==
    /\ ed.pc = "done" =>
          ed.result = Reconstruct(ed.to_content, ed.replacements,
                                  SortedAscending(DOMAIN ed.replacements), 0)
    /\ ed.pc = "loop" =>
          LET applied == {k \in DOMAIN ed.replacements :
                             \A j \in 1..Len(ed.keys) : ed.keys[j] # k}
              low == IF applied = {} THEN Len(ed.to_content) ELSE SetMin(applied)
          IN  /\ SubSeq(ed.result_chars, 1, low) = SubSeq(ed.to_content, 1, low)
              /\ SubSeq(ed.result_chars, low + 1, Len(ed.result_chars))
                    = Reconstruct(ed.to_content, ed.replacements,
                                  SortedAscending(applied), low)

\* C1 witness: two edits, the lower one growing the buffer and the higher one
\* shrinking it, have both been applied.
C1_Witness ==
    /\ ed.pc = "done"
    /\ \E k1, k2 \in DOMAIN ed.replacements :
          /\ k1 < k2
          /\ Len(ed.replacements[k1][2]) > ed.replacements[k1][1] - k1
          /\ Len(ed.replacements[k2][2]) < ed.replacements[k2][1] - k2
    /\ Len(ed.result) # Len(ed.to_content)

(***************************************************************************)
(* extract_ja_section (lines 108-138).                                     *)
(***************************************************************************)
None == [ok |-> FALSE]

SectionOffsetUntranslated(text_start, offset_in_section) == offset_in_section

\* Lines 135-136: an offset in text_section as an offset in block_content.
SectionOffset(text_start, offset_in_section) == text_start + offset_in_section

\* Lines 117-121 (149-153): the text section whose header is text_match and
\* whose brace is matched at text_end.
TextSectionAt(block_content, text_match, text_end) ==
    IF text_end = -1 THEN None
    ELSE [ok |-> TRUE, text_start |-> text_match.start,
          text_section |-> PySlice(block_content, text_match.start, text_end)]

\* Lines 111-117 (143-149).
TextSectionOf(block_content, text_match) ==
    IF text_match.start = -1 THEN None
    ELSE TextSectionAt(block_content, text_match,
                       find_matching_brace(block_content, text_match.end - 1))

\* Lines 111-121 (143-153): the text = { ... } section of a block.
TextSection(block_content) ==
    TextSectionOf(block_content, re_search_keyword(block_content, KwText))

\* Lines 131-138.
JaSpan(ts, ja_match, ja_end_in_section) ==
    IF ja_end_in_section = -1 THEN None
    ELSE [ok |-> TRUE,
          start |-> SectionOffset(ts.text_start, ja_match.start),
          end |-> SectionOffset(ts.text_start, ja_end_in_section),
          content |-> PySlice(ts.text_section, ja_match.start, ja_end_in_section)]

\* Lines 125-130.
JaInSection(ts, ja_match) ==
    IF ja_match.start = -1 THEN None
    ELSE JaSpan(ts, ja_match, find_matching_brace(ts.text_section, ja_match.end - 1))

\* Lines 112-124.
JaOfText(ts) ==
    IF ~ts.ok THEN None
    ELSE JaInSection(ts, re_search_keyword(ts.text_section, KwJa))

extract_ja_section(block_content) == JaOfText(TextSection(block_content))

(***************************************************************************)
(* transform_name and the re.sub that applies it (lines 168-181).          *)
(***************************************************************************)
\* "(?:[^"\\]|\\.)*" at p: the end of the match, or -1.  The dot of \\. does
\* not match a newline (findall is called without re.DOTALL).
RECURSIVE QuotedBody(_, _)
QuotedBody(text, q) ==
    LET c == CharAt(text, q)
    IN  IF c = "" THEN -1
        ELSE IF c = "\"" THEN q + 1
        ELSE IF c = "\\"
             THEN IF CharAt(text, q + 1) \in {"", "\n"} THEN -1
                  ELSE QuotedBody(text, q + 2)
        ELSE QuotedBody(text, q + 1)

QuotedAt(text, p) == IF CharAt(text, p) = "\"" THEN QuotedBody(text, p + 1) ELSE -1

\* re.findall(r'"(?:[^"\\]|\\.)*"', text), line 171, scanning from p.
RECURSIVE FindAllQuoted(_, _)
FindAllQuoted(text, p) ==
    IF p >= Len(text) THEN <<>>
    ELSE LET e == QuotedAt(text, p)
         IN  IF e = -1 THEN FindAllQuoted(text, p + 1)
             ELSE <<PySlice(text, p, e)>> \o FindAllQuoted(text, e)

\* The first "}" at or after p, or -1.
FirstClose(text, p) ==
    LET closes == {c \in p..Len(text) - 1 : At(text, c) = "}"}
    IN  IF closes = {} THEN -1 ELSE SetMin(closes)

\* (name\s*=\s*\{)(.*?)(\}) with DOTALL | IGNORECASE, leftmost from p: group 1
\* is [start, g1e), group 2 is [g1e, close), group 3 is the "}" at close.
NameMatchAt(text, p) ==
    LET m == KeywordAt(text, p, KwName)
        c == FirstClose(text, m.end)
    IN  IF m.start # -1 /\ c # -1
        THEN [start |-> p, g1e |-> m.end, close |-> c, end |-> c + 1]
        ELSE [start |-> -1]

NameMatchFrom(text, p) ==
    LET starts == {q \in p..Len(text) - 1 : NameMatchAt(text, q).start # -1}
    IN  IF starts = {} THEN [start |-> -1] ELSE NameMatchAt(text, SetMin(starts))

TransformNameFirst(text, m, strings) ==
    IF strings # <<>>
    THEN PySlice(text, m.start, m.g1e) \o strings[1] \o PySlice(text, m.close, m.end)
    ELSE PySlice(text, m.start, m.end)

\* transform_name (lines 172-174) on the match m of text; strings is the result
\* of the findall of line 171.
transform_name(text, m, strings) ==
    IF strings # <<>>
    THEN PySlice(text, m.start, m.g1e) \o strings[Len(strings)]
         \o PySlice(text, m.close, m.end)
    ELSE PySlice(text, m.start, m.end)

\* One match of re.sub replaced: lines 169-181.
NmReplace(f, m) ==
    [f EXCEPT !.out = f.out \o PySlice(f.en_content, f.pos, m.start)
                      \o transform_name(f.en_content, m,
                            FindAllQuoted(PySlice(f.en_content, m.g1e, m.close), 0)),
              !.pos = m.end]

NmOnMatch(f, m) ==
    IF m.start = -1
    THEN [f EXCEPT !.pc = "done",
                   !.out = f.out \o PySlice(f.en_content, f.pos, Len(f.en_content))]
    ELSE NmReplace(f, m)

\* One substitution of re.sub (lines 176-181) on the frame f, or its end.
NmStep(f) == NmOnMatch(f, NameMatchFrom(f.en_content, f.pos))

NmFrame(fields, en_content) ==
    [pc |-> "sub", fields |-> fields, en_content |-> en_content, pos |-> 0, out |-> <<>>]

RECURSIVE NmRun(_)
NmRun(f) == IF f.pc = "done" THEN f.out ELSE NmRun(NmStep(f))

sub_transform_name(en_content) == NmRun(NmFrame(<<>>, en_content))

\* re.sub(r'^en\s*=', 'ja =', en_content, count=1, flags=re.IGNORECASE), line 184.
relabel_en(en_content) ==
    LET q == SkipSpaces(en_content, Len(KwEn))
    IN  IF LitAt(en_content, 0, KwEn) /\ CharAt(en_content, q) = "="
        THEN <<"j", "a", " ", "=">> \o PySlice(en_content, q + 1, Len(en_content))
        ELSE en_content

(***************************************************************************)
(* extract_en_section (lines 140-185).                                     *)
(***************************************************************************)
\* Lines 163-185.
EnContent(ts, en_match, en_end) ==
    IF en_end = -1 THEN None
    ELSE [ok |-> TRUE,
          content |-> relabel_en(sub_transform_name(
                          PySlice(ts.text_section, en_match.start, en_end)))]

\* Lines 157-162.
EnInSection(ts, en_match) ==
    IF en_match.start = -1 THEN None
    ELSE EnContent(ts, en_match, find_matching_brace(ts.text_section, en_match.end - 1))

\* Lines 144-156.
EnOfText(ts) ==
    IF ~ts.ok THEN None
    ELSE EnInSection(ts, re_search_keyword(ts.text_section, KwEn))

extract_en_section(block_content) == EnOfText(TextSection(block_content))

(***************************************************************************)
(* Specification SpecName: the re.sub of lines 176-181, one substitution   *)
(* per step, on an en subsection holding at most MaxFields name fields.  A *)
(* field is described by its quoted strings and by whether it is written   *)
(* with blanks (name = { "J", "H" }) or without (name={"J","H"}).          *)
(***************************************************************************)
StrJ == <<"\"", "J", "\"">>
StrH == <<"\"", "H", "\"">>
StrEsc == <<"\"", "a", "\\", "\"", "b", "\"">>

NameLists == {<<>>, <<StrH>>, <<StrJ, StrH>>, <<StrH, StrEsc>>, <<StrEsc, StrJ, StrH>>}

NameFields == [strs : NameLists, spaced : BOOLEAN, upper : BOOLEAN]

RECURSIVE Join(_, _)
Join(ss, sep) ==
    IF ss = <<>> THEN <<>>
    ELSE IF Len(ss) = 1 THEN ss[1]
    ELSE ss[1] \o sep \o Join(Tail(ss), sep)

FieldHead(f) ==
    (IF f.upper THEN <<"N","a","m","e">> ELSE KwName)
    \o (IF f.spaced THEN <<" ", "=", " ", "{">> ELSE <<"=", "{">>)

\* The text of a name field holding the quoted strings strs.
RenderList(f, strs) ==
    FieldHead(f)
    \o (IF f.spaced THEN <<" ">> \o Join(strs, <<",", " ">>) \o <<" ">>
        ELSE Join(strs, <<",">>))
    \o <<"}">>

RenderField(f) == RenderList(f, f.strs)

\* The en subsection holding the rendered fields: en = { <field>, <field>, "hi" }.
RenderEn(rendered) ==
    <<"e","n"," ","="," ","{"," ">>
    \o Concat([k \in 1..Len(rendered) |-> rendered[k] \o <<",", " ">>])
    \o <<"\"","h","i","\""," ","}">>

InitName ==
    /\ \E fields \in UNION {[1..n -> NameFields] : n \in 0..MaxFields} :
          nm = NmFrame(fields, RenderEn([k \in 1..Len(fields) |-> RenderField(fields[k])]))
    /\ OthersIdle({"nm"})

\* One name field matched and replaced by transform_name.
NmSubstitute ==
    /\ nm.pc = "sub"
    /\ NmStep(nm).pc = "sub"
    /\ nm' = NmStep(nm)
    /\ UNCHANGED <<fmb, eb, ed, mainVars>>

\* No further match: the rest of the text is copied and re.sub returns.
NmFinish ==
    /\ nm.pc = "sub"
    /\ NmStep(nm).pc = "done"
    /\ nm' = NmStep(nm)
    /\ UNCHANGED <<fmb, eb, ed, mainVars>>

NextName == NmSubstitute \/ NmFinish

SpecName == InitName /\ [][NextName]_vars

----------------------------------------------------------------------------
\* What the code makes of a name field: the head, the last quoted string and the
\* closing brace with nothing between them; a field without strings as it was.
CollapsedField(f) ==
    IF f.strs = <<>> THEN RenderField(f)
    ELSE FieldHead(f) \o f.strs[Len(f.strs)] \o <<"}">>

\* What C8 states: the singleton list of the last string, written as the list
\* was written; a field without strings as it was.
SingletonField(f) ==
    IF f.strs = <<>> THEN RenderField(f)
    ELSE RenderList(f, <<f.strs[Len(f.strs)]>>)

\* C8 as amended: every name field holding at least one quoted string becomes
\* the field's head, its last quoted string and the closing brace, with the
\* blanks and commas that stood between the braces removed (name = { "J", "H" }
\* becomes name = {"H"}, name = { "H" } becomes name = {"H"}); a field without
\* quoted strings, and everything outside the name fields, is left as it was.
C8_NameCollapsed ==
    nm.pc = "done" => nm.out = RenderEn([k \in 1..Len(nm.fields) |-> CollapsedField(nm.fields[k])])

\* C8 witness: a field written with blanks and holding two strings, and a field
\* holding one string, have been transformed.
C8_Witness ==
    /\ nm.pc = "done"
    /\ \E k \in 1..Len(nm.fields) : nm.fields[k].spaced /\ Len(nm.fields[k].strs) = 2
    /\ \E k \in 1..Len(nm.fields) : Len(nm.fields[k].strs) = 1
    /\ nm.out # nm.en_content

\* C8 as stated: a list becomes the singleton list of its last string, a list
\* of one string is returned unchanged, a field without strings is unmodified.
C8_Original ==
    nm.pc = "done" => nm.out = RenderEn([k \in 1..Len(nm.fields) |-> SingletonField(nm.fields[k])])

(***************************************************************************)
(* process_file (lines 187-274).                                           *)
(***************************************************************************)
EmptyDict == [keys |-> <<>>, val |-> <<>>]

\* d[k] = v on a Python dict: a new key goes last, an old key keeps its place.
DictPut(d, k, v) ==
    [keys |-> IF k \in DOMAIN d.val THEN d.keys ELSE Append(d.keys, k),
     val |-> [x \in (DOMAIN d.val) \cup {k} |-> IF x = k THEN v ELSE d.val[x]]]

\* {b.block_id: b for b in blocks}, lines 207-208.
RECURSIVE BlocksDictFrom(_, _)
BlocksDictFrom(blocks, d) ==
    IF blocks = <<>> THEN d
    ELSE BlocksDictFrom(Tail(blocks), DictPut(d, Head(blocks).block_id, Head(blocks)))

BlocksDict(blocks) == BlocksDictFrom(blocks, EmptyDict)

CorrelateIdentity(to_id) == to_id

\* Line 217: the source id that a target id is paired with.
CorrelateOffset(to_id) == to_id + 1

\* Lines 222-225: f holds replacements and unmatched_to.
CorrelateEdit(f, to_id, to_block, en_content, ja_pos) ==
    IF ja_pos.ok
    THEN [f EXCEPT !.replacements =
             [x \in (DOMAIN f.replacements) \cup {to_block.start + ja_pos.start} |->
                 IF x = to_block.start + ja_pos.start
                 THEN <<to_block.start + ja_pos.end, en_content>>
                 ELSE f.replacements[x]]]
    ELSE [f EXCEPT !.unmatched_to = Append(f.unmatched_to, to_id)]

\* Lines 220-225.
CorrelatePair(f, to_id, to_block, en_section) ==
    IF en_section.ok /\ en_section.content # <<>>
    THEN CorrelateEdit(f, to_id, to_block, en_section.content,
                       extract_ja_section(to_block.content))
    ELSE f

\* Lines 217-227 for one target id.
CorrelateStep(f, to_id, to_blocks_dict, from_blocks_dict) ==
    IF CorrelateOffset(to_id) \in DOMAIN from_blocks_dict.val
    THEN CorrelatePair(f, to_id, to_blocks_dict.val[to_id],
             extract_en_section(from_blocks_dict.val[CorrelateOffset(to_id)].content))
    ELSE [f EXCEPT !.unmatched_to = Append(f.unmatched_to, to_id)]

\* The loop of lines 216-227 over the keys of to_blocks_dict.
RECURSIVE CorrelateLoop(_, _, _, _)
CorrelateLoop(f, keys, to_blocks_dict, from_blocks_dict) ==
    IF keys = <<>> THEN f
    ELSE CorrelateLoop(CorrelateStep(f, Head(keys), to_blocks_dict, from_blocks_dict),
                       Tail(keys), to_blocks_dict, from_blocks_dict)

\* The loop of lines 229-231.
UnmatchedFrom(to_blocks_dict, from_blocks_dict) ==
    SelectSeq(from_blocks_dict.keys, LAMBDA from_id : (from_id - 1) \notin DOMAIN to_blocks_dict.val)

\* needle in hay (Python's substring test).
Contains(needle, hay) ==
    \E p \in 0..Len(hay) - Len(needle) :
       \A k \in 1..Len(needle) : hay[p + k] = needle[k]

Astver == <<"a","s","t","v","e","r">>
AstOpen == <<"a","s","t"," ","="," ","{">>
AstverWindow == 200
AstOpenWindow == 300

StructureCorruptedBoth(result) ==
    /\ ~Contains(Astver, PySlice(result, 0, AstverWindow))
    /\ ~Contains(AstOpen, PySlice(result, 0, AstOpenWindow))

\* The condition of line 256.
StructureCorrupted(result) ==
    \/ ~Contains(Astver, PySlice(result, 0, AstverWindow))
    \/ ~Contains(AstOpen, PySlice(result, 0, AstOpenWindow))

MsgNoTo == "No blocks found in TO file"
MsgNoFrom == "No blocks found in FROM file"
MsgNoReplacements == "No valid replacements found"
MsgCorrupted == "CRITICAL: Output structure corrupted (missing astver/ast)"
MsgException == "Exception"
MsgMissingFrom == "No matching file in FROM folder"

NoReplacementsNever(replacements) == FALSE

\* The condition of line 243.
NoReplacements(replacements) == DOMAIN replacements = {}

\* The locals of a process_file call on the file called name, as the call
\* starts.  fault is what the file system does to the call: "read" makes
\* read_text raise (lines 191-192), "write" makes mkdir or write_text raise
\* (lines 261-264), "none" neither.  failure is the message appended to
\* failed_files, "" while there is none; mismatch is the tuple appended to
\* mismatched_files, <<>> when there is none; written tells whether write_text
\* has completed; pc is "returned" once the call has returned.
PfFrame(name, to_content, from_content, fault) ==
    [pc |-> "running", name |-> name, fault |-> fault, stage |-> "call",
     to_content |-> to_content, from_content |-> from_content,
     to_blocks |-> <<>>, from_blocks |-> <<>>,
     replacements |-> <<>>, unmatched_to |-> <<>>, unmatched_from |-> <<>>,
     mismatch |-> <<>>, result |-> <<>>,
     failure |-> "", written |-> FALSE, ret |-> FALSE]

\* self.failed_files.append((to_path.name, msg)); return False.
PfFail(f, msg) == [f EXCEPT !.pc = "returned", !.failure = msg, !.ret = FALSE]

\* Lines 191-204 and, for a raising read_text, 268-274.
PfExtract(f) ==
    IF f.fault = "read" THEN PfFail(f, MsgException)
    ELSE [f EXCEPT !.to_blocks = extract_blocks_to(f.to_content),
                   !.from_blocks = extract_blocks_from(f.from_content),
                   !.stage = "blocks"]

PfCheckBlocks(f) ==
    IF f.pc = "returned" THEN f
    ELSE IF f.to_blocks = <<>> THEN PfFail(f, MsgNoTo)
    ELSE IF f.from_blocks = <<>> THEN PfFail(f, MsgNoFrom)
    ELSE f

\* Lines 207-231.
PfCorrelateDicts(f, to_blocks_dict, from_blocks_dict) ==
    [CorrelateLoop(f, to_blocks_dict.keys, to_blocks_dict, from_blocks_dict)
        EXCEPT !.unmatched_from = UnmatchedFrom(to_blocks_dict, from_blocks_dict),
               !.stage = "correlated"]

PfCorrelate(f) ==
    IF f.pc = "returned" THEN f
    ELSE PfCorrelateDicts(f, BlocksDict(f.to_blocks), BlocksDict(f.from_blocks))

\* Lines 234-241.
PfMismatch(f) ==
    IF f.pc = "returned" THEN f
    ELSE IF f.unmatched_to # <<>> \/ f.unmatched_from # <<>>
         THEN [f EXCEPT !.mismatch = <<f.name, Len(f.to_blocks), Len(f.from_blocks),
                                       f.unmatched_to \o f.unmatched_from>>]
    ELSE f

\* Lines 243-245.
PfCheckReplacements(f) ==
    IF f.pc = "returned" THEN f
    ELSE IF NoReplacements(f.replacements) THEN PfFail(f, MsgNoReplacements)
    ELSE f

\* Lines 247-253.
PfReplace(f) ==
    IF f.pc = "returned" THEN f
    ELSE [f EXCEPT !.result = apply_replacements(f.to_content, f.replacements),
                   !.stage = "replaced"]

\* Lines 255-258.
PfCheckStructure(f) ==
    IF f.pc = "returned" THEN f
    ELSE IF StructureCorrupted(f.result) THEN PfFail(f, MsgCorrupted)
    ELSE f

\* Lines 260-266 and, for a raising mkdir or write_text, 268-274.
PfWrite(f) ==
    IF f.pc = "returned" THEN f
    ELSE IF f.fault = "write" THEN PfFail(f, MsgException)
    ELSE [f EXCEPT !.pc = "returned", !.written = TRUE, !.ret = TRUE, !.stage = "written"]

\* process_file: the locals of the call when it returns.
process_file(name, to_content, from_content, fault) ==
    PfWrite(PfCheckStructure(PfReplace(PfCheckReplacements(PfMismatch(PfCorrelate(
        PfCheckBlocks(PfExtract(PfFrame(name, to_content, from_content, fault)))))))))

RecordFailureDropped(proc, name, failure) == proc

\* self.failed_files.append((to_path.name, <message>)): lines 199, 203, 244,
\* 257, 270 and 388.
RecordFailure(proc, name, failure) ==
    [proc EXCEPT !.failed_files = Append(proc.failed_files, <<name, failure>>)]

\* mismatched_files with the tuple of lines 235-240 appended.
WithMismatch(proc, f) ==
    IF f.mismatch # <<>>
    THEN [proc EXCEPT !.mismatched_files = Append(proc.mismatched_files, f.mismatch)]
    ELSE proc

\* failed_files with the failure of the call appended.
WithFailure(proc, f) ==
    IF f.failure # "" THEN RecordFailure(proc, f.name, f.failure) ELSE proc

\* successful_files with the name appended (line 265).
WithSuccess(proc, f) ==
    IF f.ret
    THEN [proc EXCEPT !.successful_files = Append(proc.successful_files, f.name)]
    ELSE proc

\* The ASTProcessor after the call whose locals are f.
ProcessorAfter(proc, f) == WithSuccess(WithFailure(WithMismatch(proc, f), f), f)

(***************************************************************************)
(* The files of the model: target and source texts built from a header, a  *)
(* few blocks and padding.                                                 *)
(***************************************************************************)
\* astver = 1 / ast = {
Header == <<"a","s","t","v","e","r"," ","="," ","1","\n","a","s","t"," ","="," ","{","\n">>
\* The same header written without blanks: it holds no "ast = {".
HeaderNoBlanks == <<"a","s","t","v","e","r","=","1","\n","a","s","t","=","{","\n">>
\* A header without the version marker.
HeaderNoVersion == <<"v","e","r"," ","="," ","1","\n","a","s","t"," ","="," ","{","\n">>
\* c = {} text = { ja = { "j" }, }
BodyJa == <<" ","c"," ","="," ","{","}"," ","t","e","x","t"," ","="," ","{"," ","j","a"," ","="," ","{"," ","\"","j","\""," ","}",","," ","}"," ">>
\* A text section without a ja subsection.
BodyNoJa == <<" ","t","e","x","t"," ","="," ","{"," ","v"," ","="," ","{","}"," ","}"," ">>
\* text = { en = { name = { "J", "H" }, "hi" } }
BodyEn == <<" ","t","e","x","t"," ","="," ","{"," ","e","n"," ","="," ","{"," ","n","a","m","e"," ","="," ","{"," ","\"","J","\"",","," ","\"","H","\""," ","}",","," ","\"","h","i","\""," ","}"," ","}"," ">>
\* An en subsection shorter than any ja subsection.
BodyEnShort == <<" ","T","e","x","t"," ","="," ","{"," ","E","N","=","{","}"," ","}"," ">>
\* A text section without an en subsection.
BodyNoEn == <<" ","t","e","x","t"," ","="," ","{"," ","j","a"," ","="," ","{","}"," ","}"," ">>

\* block_<id> = {<body>}
ToBlock(id, body) ==
    KwBlock \o id \o <<" ", "=", " ", "{">> \o body \o <<"}", "\n">>

\* ["1_<id>"] = {<body>}
FromBlock(id, body) ==
    <<"[", "\"", "1", "_">> \o id \o <<"\"", "]", " ", "=", " ", "{">> \o body \o <<"}", "\n">>

\* A target header whose brace is never closed.
BrokenToHeader == <<"b","l","o","c","k","_","7"," ","="," ","{","\n">>

Pad(n) == [k \in 1..n |-> " "]

ToAll == Header \o ToBlock(<<"0","0">>, BodyJa) \o ToBlock(<<"0","1">>, BodyJa)
         \o ToBlock(<<"0","2">>, BodyJa) \o <<"}">>
ToFirstNoJa == Header \o ToBlock(<<"0">>, BodyNoJa) \o ToBlock(<<"1">>, BodyJa) \o <<"}">>
ToNoBlocks == Header \o <<"}">>
ToNoBlanks == HeaderNoBlanks \o ToBlock(<<"0">>, BodyJa) \o <<"}">>
ToNoVersion == HeaderNoVersion \o ToBlock(<<"0">>, BodyJa) \o <<"}">>
\* The version marker starts at offset n.
ToVersionAt(n) == Pad(n) \o Header \o ToBlock(<<"0">>, BodyJa) \o <<"}">>
\* "ast = {" starts at offset n.
ToOpenAt(n) ==
    Astver \o Pad(n - Len(Astver)) \o AstOpen \o ToBlock(<<"0">>, BodyJa) \o <<"}">>
\* A block before the header, whose version marker starts at offset n: the
\* replacement of the block's ja subsection moves the header.
ToBlockFirst(n) ==
    ToBlock(<<"0">>, BodyJa) \o Pad(n - Len(ToBlock(<<"0">>, BodyJa))) \o Header \o <<"}">>
\* A repeated id and a broken header.
ToRepeated == Header \o ToBlock(<<"0">>, BodyNoJa) \o BrokenToHeader
              \o ToBlock(<<"0">>, BodyJa) \o ToBlock(<<"1">>, BodyJa)

FromAll == FromBlock(<<"0","1">>, BodyEn) \o FromBlock(<<"0","2">>, BodyEnShort)
           \o FromBlock(<<"0","3">>, BodyEn)
FromGap == FromBlock(<<"1">>, BodyEn) \o FromBlock(<<"2">>, BodyEnShort)
           \o FromBlock(<<"4">>, BodyEn)
FromShort == FromBlock(<<"1">>, BodyEnShort)
FromFar == FromBlock(<<"5">>, BodyEn)
FromNoBlocks == <<"-", "-", "\n">>
FromNoEn == FromBlock(<<"1">>, BodyNoEn)

FilePair(to_content, from_content) == [to |-> to_content, from |-> from_content]

\* One pair for each way a call can end.
BatchPairs == {
    FilePair(ToAll, FromAll), FilePair(ToAll, FromGap), FilePair(ToAll, FromFar),
    FilePair(ToAll, FromNoBlocks), FilePair(ToNoBlocks, FromAll),
    FilePair(ToNoVersion, FromAll) }

\* The last character of "astver" must lie below AstverWindow and the last
\* character of "ast = {" below AstOpenWindow: the pairs place each marker at
\* the last offset that passes and at the first that fails.
FilePairs == BatchPairs \cup {
    FilePair(ToAll, FromNoEn), FilePair(ToAll, FromShort),
    FilePair(ToFirstNoJa, FromAll), FilePair(ToFirstNoJa, FromNoEn),
    FilePair(ToFirstNoJa, FromGap),
    FilePair(ToNoBlanks, FromAll),
    FilePair(ToVersionAt(AstverWindow - Len(Astver)), FromAll),
    FilePair(ToVersionAt(AstverWindow - Len(Astver) + 1), FromAll),
    FilePair(ToOpenAt(AstOpenWindow - Len(AstOpen)), FromAll),
    FilePair(ToOpenAt(AstOpenWindow - Len(AstOpen) + 1), FromAll),
    FilePair(ToBlockFirst(AstverWindow - Len(Astver) - 4), FromAll),
    FilePair(ToBlockFirst(AstverWindow - Len(Astver) + 4), FromShort),
    FilePair(ToRepeated, FromAll), FilePair(ToRepeated, FromGap) }

Faults == {"none", "read", "write"}

NewProcessor == [mismatched_files |-> <<>>, failed_files |-> <<>>, successful_files |-> <<>>]

(***************************************************************************)
(* Specification SpecFile: one call of process_file on a new ASTProcessor, *)
(* on every pair of FilePairs under every fault.                           *)
(***************************************************************************)
InitFile ==
    /\ main_pc = "call"
    /\ n_files = 1
    /\ idx = 0
    /\ processor = NewProcessor
    /\ success_count = 0
    /\ outputs = {}
    /\ \E pair \in FilePairs : \E fault \in Faults :
          pf = [pc |-> "call", name |-> 1, to_content |-> pair.to,
                from_content |-> pair.from, fault |-> fault]
    /\ OthersIdle({"main"})

\* Lines 187-274: the call, from its arguments to its return.
ProcessFile ==
    /\ main_pc = "call"
    /\ pf.pc = "call"
    /\ pf' = process_file(pf.name, pf.to_content, pf.from_content, pf.fault)
    /\ processor' = ProcessorAfter(processor, pf')
    /\ outputs' = IF pf'.written THEN outputs \cup {pf'.name} ELSE outputs
    /\ UNCHANGED <<main_pc, n_files, idx, success_count, fmb, eb, ed, nm>>

NextFile == ProcessFile

SpecFile == InitFile /\ [][NextFile]_vars

\* The names of the pairs of a list of (name, message) pairs.
FailedNames(failed_files) == {failed_files[k][1] : k \in 1..Len(failed_files)}

\* The elements of a list.
Elems(seq) == {seq[k] : k \in 1..Len(seq)}

\* marker lies wholly inside the first window characters of text.
MarkerWithin(marker, text, window) ==
    \E p \in 0..window - Len(marker) :
       /\ p + Len(marker) <= Len(text)
       /\ \A k \in 1..Len(marker) : text[p + k] = marker[k]

\* The call has returned after the loop of lines 248-253 produced a result.
EditsApplied == pf.pc = "returned" /\ pf.stage \in {"replaced", "written"}

\* The file is rejected: nothing written, a failure recorded, no success.
Rejected ==
    /\ ~pf.written
    /\ outputs = {}
    /\ pf.name \in FailedNames(processor.failed_files)
    /\ pf.name \notin Elems(processor.successful_files)
    /\ ~pf.ret

\* C2: whenever the substituted result lacks "astver" in its first 200
\* characters or lacks "ast = {" in its first 300 characters, the file is
\* rejected although every edit was applied: no output is written, the file is
\* in failed_files and not in successful_files, and the call returns False.
C2_IntegrityRejects ==
    (/\ EditsApplied
     /\ \/ ~MarkerWithin(Astver, pf.result, 200)
        \/ ~MarkerWithin(AstOpen, pf.result, 300))
    => Rejected

\* C2 witness: a file whose own version marker lies inside the window, whose
\* edits were all applied, and whose result has the marker pushed out of the
\* window, has been rejected as corrupted.
C2_Witness ==
    /\ EditsApplied
    /\ pf.fault = "none"
    /\ MarkerWithin(Astver, pf.to_content, 200)
    /\ ~MarkerWithin(Astver, pf.result, 200)
    /\ MarkerWithin(AstOpen, pf.result, 300)
    /\ DOMAIN pf.replacements # {}
    /\ processor.failed_files = <<<<pf.name, MsgCorrupted>>>>

\* The source blocks of id from_id that hold a valid en subsection.
HasEn(from_blocks, from_id) ==
    \E k \in 1..Len(from_blocks) :
       /\ from_blocks[k].block_id = from_id
       /\ extract_en_section(from_blocks[k].content).ok

\* No target block has both a source block of id + 1 with a valid en
\* subsection and a valid ja subsection of its own.
NoBlockYieldsEdit ==
    \A k \in 1..Len(pf.to_blocks) :
       \/ ~HasEn(pf.from_blocks, pf.to_blocks[k].block_id + 1)
       \/ ~extract_ja_section(pf.to_blocks[k].content).ok

\* The call has returned after reading both files.
FilesRead == pf.pc = "returned" /\ pf.stage # "call"

BlockIds(blocks) == {blocks[k].block_id : k \in 1..Len(blocks)}

\* The block that the dict of lines 207-208 keeps for an id: the last one.
LastWithId(blocks, id) ==
    blocks[SetMax({k \in 1..Len(blocks) : blocks[k].block_id = id})]

\* A list without repeated elements.
NoRepeats(seq) == \A j, k \in 1..Len(seq) : seq[j] = seq[k] => j = k

\* The call has returned after the loops of lines 216-231.
Correlated == pf.pc = "returned" /\ pf.stage \in {"correlated", "replaced", "written"}

\* The target ids t with a source block of id t + 1 whose en subsection is
\* valid but whose own block holds no valid ja subsection (lines 224-225).
NoJaIds ==
    {t \in BlockIds(pf.to_blocks) :
        /\ t + 1 \in BlockIds(pf.from_blocks)
        /\ extract_en_section(LastWithId(pf.from_blocks, t + 1).content).ok
        /\ ~extract_ja_section(LastWithId(pf.to_blocks, t).content).ok}

\* C4 as amended: when both files hold blocks, the correlator records as
\* unmatched-target, each once, the ids t of T with t+1 not in S and also the
\* ids t whose source block t+1 holds a valid en subsection while the target
\* block holds no valid ja subsection; it records as unmatched-source, each
\* once, exactly the ids s of S with s-1 not in T.
C4_UnmatchedIds ==
    Correlated =>
       /\ Elems(pf.unmatched_to) =
             {t \in BlockIds(pf.to_blocks) : t + 1 \notin BlockIds(pf.from_blocks)}
             \cup NoJaIds
       /\ Elems(pf.unmatched_from) =
             {x \in BlockIds(pf.from_blocks) : x - 1 \notin BlockIds(pf.to_blocks)}
       /\ NoRepeats(pf.unmatched_to)
       /\ NoRepeats(pf.unmatched_from)

\* C4 witness: T = {0,1,2} and S = {1,2,4} have been correlated, with target 2
\* and source 4 reported.
C4_Witness ==
    /\ Correlated
    /\ BlockIds(pf.to_blocks) = {0, 1, 2}
    /\ BlockIds(pf.from_blocks) = {1, 2, 4}
    /\ pf.unmatched_to = <<2>>
    /\ pf.unmatched_from = <<4>>

\* C4 as stated: the unmatched-target ids are exactly the t of T with t+1 not
\* in S, the unmatched-source ids exactly the s of S with s-1 not in T.
C4_Original ==
    Correlated =>
       /\ Elems(pf.unmatched_to) =
             {t \in BlockIds(pf.to_blocks) : t + 1 \notin BlockIds(pf.from_blocks)}
       /\ Elems(pf.unmatched_from) =
             {x \in BlockIds(pf.from_blocks) : x - 1 \notin BlockIds(pf.to_blocks)}

\* The edit [start, end) covers the ja subsection of the block b of the target
\* text: it lies inside the block and inside the block's text section, starts
\* at the first ja tag of that section and ends one past the brace that closes
\* the brace opened after the tag.
CoversJa(start, end, b) ==
    /\ b.start <= start
    /\ end <= b.end
    /\ \E ts \in b.start..start - 1 :
          /\ LitAt(pf.to_content, ts, KwText)
          /\ AssignOpenAt(pf.to_content, ts + Len(KwText)) # -1
          /\ \A q \in b.start..ts - 1 : KeywordAt(pf.to_content, q, KwText).start = -1
          /\ \A q \in ts..start - 1 : KeywordAt(pf.to_content, q, KwJa).start = -1
          /\ end <= find_matching_brace(pf.to_content,
                                        AssignOpenAt(pf.to_content, ts + Len(KwText)) - 1)
    /\ LitAt(pf.to_content, start, KwJa)
    /\ AssignOpenAt(pf.to_content, start + Len(KwJa)) # -1
    /\ end = find_matching_brace(pf.to_content,
                                 AssignOpenAt(pf.to_content, start + Len(KwJa)) - 1)
    /\ At(pf.to_content, end - 1) = "}"

\* C9: the edits computed by process_file are pairwise non-overlapping; each
\* spans, in offsets of the target text, exactly the ja subsection (from the
\* ja tag through its matching closing brace) of a target block of its own,
\* inside that block.
C9_EditsDisjoint ==
    Correlated =>
       /\ \A s1, s2 \in DOMAIN pf.replacements :
             s1 < s2 => pf.replacements[s1][1] <= s2
       /\ \A s1 \in DOMAIN pf.replacements : s1 < pf.replacements[s1][1]
       /\ \E owner \in [DOMAIN pf.replacements -> 1..Len(pf.to_blocks)] :
             /\ \A s1, s2 \in DOMAIN pf.replacements : owner[s1] = owner[s2] => s1 = s2
             /\ \A s1 \in DOMAIN pf.replacements :
                   CoversJa(s1, pf.replacements[s1][1], pf.to_blocks[owner[s1]])

\* C9 witness: three blocks whose text section starts after other content have
\* each produced an edit, and the output has been written.
C9_Witness ==
    /\ pf.pc = "returned"
    /\ pf.stage = "written"
    /\ Cardinality(DOMAIN pf.replacements) = 3
    /\ \A k \in 1..Len(pf.to_blocks) :
          re_search_keyword(pf.to_blocks[k].content, KwText).start > 0

(***************************************************************************)
(* Specification Spec: the loop of main() (lines 378-396) over 1..n_files, *)
(* the sorted target files.  A file is named by its place in to_files; the *)
(* locals of process_file are gone when the call returns.                  *)
(***************************************************************************)
Init ==
    /\ main_pc = "loop"
    /\ n_files \in 1..MaxFiles
    /\ idx = 0
    /\ processor = NewProcessor
    /\ success_count = 0
    /\ outputs = {}
    /\ pf = [pc |-> "none"]
    /\ OthersIdle({"main"})

\* Lines 387-390: the source folder holds no file of that name.
MainMissingFrom ==
    /\ main_pc = "loop"
    /\ idx < n_files
    /\ processor' = RecordFailure(processor, idx + 1, MsgMissingFrom)
    /\ idx' = idx + 1
    /\ UNCHANGED <<main_pc, n_files, success_count, outputs, pf, fmb, eb, ed, nm>>

\* Lines 392-396: process_file on the next file, whatever it holds.
MainProcessFile ==
    /\ main_pc = "loop"
    /\ idx < n_files
    /\ \E pair \in BatchPairs : \E fault \in Faults :
          \E f \in {process_file(idx + 1, pair.to, pair.from, fault)} :
             /\ processor' = ProcessorAfter(processor, f)
             /\ success_count' = IF f.ret THEN success_count + 1 ELSE success_count
             /\ outputs' = IF f.written THEN outputs \cup {f.name} ELSE outputs
    /\ idx' = idx + 1
    /\ UNCHANGED <<main_pc, n_files, pf, fmb, eb, ed, nm>>

\* Line 381: to_files is exhausted.
MainFinish ==
    /\ main_pc = "loop"
    /\ idx = n_files
    /\ main_pc' = "done"
    /\ UNCHANGED <<n_files, idx, processor, success_count, outputs, pf, fmb, eb, ed, nm>>

Next == MainMissingFrom \/ MainProcessFile \/ MainFinish

Spec == Init /\ [][Next]_vars

\* The loop under the scheduling of a sequential program: a step that can be
\* taken is taken.
SpecLive == Init /\ [][Next]_vars /\ WF_vars(Next)

\* How many times x occurs in a list.
Count(seq, x) == Cardinality({k \in 1..Len(seq) : seq[k] = x})

\* The names of failed_files, in order.
FailedList == [k \in 1..Len(processor.failed_files) |-> processor.failed_files[k][1]]

\* The files handled so far are those before idx; each is once in exactly one
\* of successful_files and failed_files, nothing else is in the lists, outputs
\* exist for successful files only, and success_count counts them.
BatchAccounted ==
    /\ \A n \in 1..idx :
          Count(processor.successful_files, n) + Count(FailedList, n) = 1
    /\ Elems(processor.successful_files) \cup Elems(FailedList) \subseteq 1..idx
    /\ outputs \subseteq Elems(processor.successful_files)
    /\ success_count = Len(processor.successful_files)
    /\ main_pc = "done" => idx = n_files

\* C10: whatever the outcomes of the files, the batch loop ends having handled
\* every file; each handled file is exactly once in exactly one of
\* successful_files and failed_files, a failure never stops the loop, an
\* output exists only for files of successful_files, and success_count is the
\* length of successful_files.
C10_BatchAccounting == []BatchAccounted /\ <>(main_pc = "done")

\* C10 witness: a batch of MaxFiles files has ended in which the first file
\* failed and a later one succeeded.
C10_Witness ==
    /\ main_pc = "done"
    /\ n_files = MaxFiles
    /\ idx = n_files
    /\ 1 \in Elems(FailedList)
    /\ n_files \in Elems(processor.successful_files)
    /\ n_files \in outputs

====
